---- MODULE Spec2Model ----
(***************************************************************************)
(* A model of the image-benchmark harness:                                 *)
(*   - distributed_sim.py : static partitioning of the batch over          *)
(*     NUM_NODES node processes, a result queue, join barrier, drain,      *)
(*     summary and efficiency            (specification SpecDist);         *)
(*   - parallel_process.py: the 1-worker baseline followed by one          *)
(*     multiprocessing.Pool run per entry of worker_counts, and the        *)
(*     speedup table                     (specification SpecPar).          *)
(* Spec runs either script; SpecDistFair is SpecDist under fair scheduling *)
(* of main, the node processes and the queue's feeder threads.             *)
(* The image transform is opaque: a unit either transforms or raises; the  *)
(* set `failing` holds the units whose transform raises.                   *)
(* Time is a discrete clock.  Every time.perf_counter() call returns the   *)
(* clock and advances it by one tick (successive reads are distinct), and  *)
(* Tick lets more time pass inside a measured interval.                    *)
(***************************************************************************)
EXTENDS Integers, Sequences, FiniteSets, TLC

\* ------------------------------------------------------------- bounds
MaxImages == 5
MaxNodes == 3
MaxTicks == 1
MaxTasks == 5

\* ------------------------------------------------- program constants
\* distributed_sim.py:19 is NUM_NODES = 2; the model draws the configured
\* degree from NodeDegrees so that the claims about "every k" are checked.
SEQUENTIAL_TIME == 1824
\* Fixed-point resolution of a float quotient: three decimals.
Scale == 1000

VARIABLES
    pc,                     \* position of main()
    error,                  \* the uncaught exception that ended main(), or "none"
    clock,                  \* time.perf_counter()
    failing,                \* the units whose transform raises
    calls,                  \* calls[u]: process_image calls on unit u in the current run
    written,                \* written[p]: images saved to output path p in the current run
    NUM_NODES,
    all_image_paths,
    seq_start,
    baseline_used,          \* the numerator of the efficiency quotient
    images_per_node,
    node_tasks,
    result_queue,           \* [buf: per-node feeder buffer, pipe: what a reader can see]
    processes,
    launch_i,
    join_i,
    node,                   \* node[n]: [pc, image_list, idx, start_time, returned]
    dist_start_time,
    dist_end_time,
    total_distributed_time,
    node_times,
    efficiency,
    tasks,
    worker_counts,
    start_seq,
    end_seq,
    baseline_time,
    results_seq,
    results_table,
    run_i,
    count,
    start_time,
    pool,                   \* [taskq, job, pos, acc, done]
    results

distVars == <<NUM_NODES, all_image_paths, seq_start, baseline_used, images_per_node,
              node_tasks, result_queue, processes, launch_i, join_i, node,
              dist_start_time, dist_end_time, total_distributed_time, node_times,
              efficiency>>
parVars == <<tasks, worker_counts, start_seq, end_seq, baseline_time, results_seq,
             results_table, run_i, count, start_time, pool, results>>
vars == <<pc, error, clock, failing, calls, written, written, distVars, parVars>>

\* ------------------------------------------------------------ helpers
Min(a, b) == IF a <= b THEN a ELSE b
Max(a, b) == IF a >= b THEN a ELSE b

\* Python's s[lo:hi] for integers lo, hi (negative indexes count from the end).
PySlice(s, lo, hi) ==
    LET n == Len(s)
        norm(i) == IF i < 0 THEN Max(0, n + i) ELSE Min(i, n)
        a == norm(lo)
        b == norm(hi)
    IN  IF a >= b THEN <<>> ELSE SubSeq(s, a + 1, b)

\* math.ceil(n / k), k # 0.
CeilDiv(n, k) == -((-n) \div k)

\* a / b on floats, kept to three decimals; b # 0.
Div(a, b) == (a * Scale) \div b

RECURSIVE Concat(_)
Concat(ss) == IF ss = <<>> THEN <<>> ELSE Head(ss) \o Concat(Tail(ss))

RECURSIVE SumLen(_)
SumLen(ss) == IF ss = <<>> THEN 0 ELSE Len(Head(ss)) + SumLen(Tail(ss))

Range(s) == {s[i] : i \in 1..Len(s)}

Iota(n) == [i \in 1..n |-> i]

\* Python's tuple order: lexicographic.
RECURSIVE TupleLess(_, _)
TupleLess(a, b) ==
    IF a = <<>> THEN b # <<>>
    ELSE IF b = <<>> THEN FALSE
    ELSE IF Head(a) # Head(b) THEN Head(a) < Head(b)
    ELSE TupleLess(Tail(a), Tail(b))

RECURSIVE InsertSorted(_, _)
InsertSorted(x, s) ==
    IF s = <<>> THEN <<x>>
    ELSE IF TupleLess(x, Head(s)) THEN <<x>> \o s
    ELSE <<Head(s)>> \o InsertSorted(x, Tail(s))

\* A sort that leaves the list as it is.
ListSortKeepsOrder(s) == s

\* list.sort() on a list of tuples.
RECURSIVE ListSort(_)
ListSort(s) == IF s = <<>> THEN <<>> ELSE InsertSorted(Head(s), ListSort(Tail(s)))

NodeDegrees == (-1)..MaxNodes
NodeIds == 1..MaxNodes
IdleNode == [pc |-> "none", image_list |-> <<>>, output_dir |-> "", idx |-> 0,
             start_time |-> 0, returned |-> <<>>]
IdlePool == [taskq |-> <<>>, job |-> <<>>, pos |-> <<>>, acc |-> <<>>, done |-> <<>>]

\* ------------------------------------------------------ output paths
\* The path of unit u relative to SOURCE_DIR, <<class folder, file name>>: the
\* dataset has two class folders, and a file name may occur in both.
RelPath(u) == << (u - 1) % 2, (u - 1) \div 2 >>

\* An output path that keeps the file name only.
OutputPathFlattened(dir, u) == <<dir, RelPath(u)[2]>>

\* os.path.join(output_dir, os.path.relpath(input_path, SOURCE_DIR))
OutputPath(dir, u) == <<dir>> \o RelPath(u)

\* img.save(output_path): reached unless the transform of u raised.
Save(w, p, u) ==
    IF u \in failing THEN w
    ELSE IF p \in DOMAIN w THEN [w EXCEPT ![p] = @ + 1]
    ELSE w @@ (p :> 1)

\* ------------------------------------------------ distributed_sim.py
OUTPUT_DIR_NODE1 == "output_dist_node1"
OUTPUT_DIR_NODE2 == "output_dist_node2"
node_outputs == <<OUTPUT_DIR_NODE1, OUTPUT_DIR_NODE2>>

\* process_image: the exception is caught and printed; nothing is returned.
ProcessImageDist(u) == "None"

\* NodeTasks with the second slice starting one element late.
NodeTasksSkipsOne(paths, per_node) ==
    << PySlice(paths, 0, per_node), PySlice(paths, per_node + 1, Len(paths)) >>

\* The two slices main() builds.
NodeTasks(paths, per_node) ==
    << PySlice(paths, 0, per_node), PySlice(paths, per_node, Len(paths)) >>

DistInit ==
    /\ pc = "baseline"
    /\ error = "none"
    /\ clock = 0
    /\ NUM_NODES \in NodeDegrees
    /\ \E n \in 0..MaxImages :
          /\ all_image_paths = Iota(n)
          /\ failing \in SUBSET (1..n)
          /\ calls = [u \in 1..n |-> 0]
    /\ written = <<>>
    /\ seq_start = 0
    /\ baseline_used = 0
    /\ images_per_node = 0
    /\ node_tasks = <<>>
    /\ result_queue = [buf |-> [n \in NodeIds |-> <<>>], pipe |-> <<>>]
    /\ processes = <<>>
    /\ launch_i = 0
    /\ join_i = 0
    /\ node = [n \in NodeIds |-> IdleNode]
    /\ dist_start_time = 0
    /\ dist_end_time = 0
    /\ total_distributed_time = 0
    /\ node_times = <<>>
    /\ efficiency = 0
    /\ tasks = <<>>
    /\ worker_counts = <<>>
    /\ start_seq = 0
    /\ end_seq = 0
    /\ baseline_time = 0
    /\ results_seq = <<>>
    /\ results_table = <<>>
    /\ run_i = 0
    /\ count = 0
    /\ start_time = 0
    /\ pool = IdlePool
    /\ results = <<>>

\* main(), step 1: seq_start is read, the image list is built, and the
\* baseline is set to the constant.
Baseline ==
    /\ pc = "baseline"
    /\ seq_start' = clock
    /\ clock' = clock + 1
    /\ baseline_used' = SEQUENTIAL_TIME
    /\ pc' = "partition"
    /\ UNCHANGED <<error, failing, calls, written, NUM_NODES, all_image_paths, images_per_node,
                   node_tasks, result_queue, processes, launch_i, join_i, node,
                   dist_start_time, dist_end_time, total_distributed_time,
                   node_times, efficiency, parVars>>

\* main(), steps 2 and 3: the split, the queue, and the start of the timer.
Partition ==
    /\ pc = "partition"
    /\ IF NUM_NODES = 0
       THEN /\ pc' = "error"
            /\ error' = "ZeroDivisionError"
            /\ UNCHANGED <<images_per_node, node_tasks, dist_start_time, clock>>
       ELSE /\ images_per_node' = CeilDiv(Len(all_image_paths), NUM_NODES)
            /\ node_tasks' = NodeTasks(all_image_paths, images_per_node')
            /\ dist_start_time' = clock
            /\ clock' = clock + 1
            /\ pc' = "launch"
            /\ error' = error
    /\ UNCHANGED <<failing, calls, written, NUM_NODES, all_image_paths, seq_start, baseline_used,
                   result_queue, processes, launch_i, join_i, node, dist_end_time,
                   total_distributed_time, node_times, efficiency, parVars>>

\* main(), step 4: one iteration of "for i in range(NUM_NODES)".
Launch ==
    /\ pc = "launch"
    /\ launch_i < NUM_NODES
    /\ IF launch_i + 1 > Len(node_tasks)
       THEN /\ pc' = "error"
            /\ error' = "IndexError"
            /\ UNCHANGED <<processes, launch_i, node>>
       ELSE /\ processes' = Append(processes, launch_i + 1)
            /\ node' = [node EXCEPT ![launch_i + 1] =
                           [IdleNode EXCEPT !.pc = "started",
                                            !.image_list = node_tasks[launch_i + 1],
                                            !.output_dir = node_outputs[launch_i + 1]]]
            /\ launch_i' = launch_i + 1
            /\ UNCHANGED <<pc, error>>
    /\ UNCHANGED <<clock, failing, calls, written, NUM_NODES, all_image_paths, seq_start,
                   baseline_used, images_per_node, node_tasks, result_queue, join_i,
                   dist_start_time, dist_end_time, total_distributed_time,
                   node_times, efficiency, parVars>>

LaunchDone ==
    /\ pc = "launch"
    /\ launch_i >= NUM_NODES
    /\ pc' = "join"
    /\ UNCHANGED <<error, clock, failing, calls, written, distVars, parVars>>

\* node_worker: the start of the node's timer.
NodeBegin(n) ==
    /\ node[n].pc = "started"
    /\ node' = [node EXCEPT ![n].pc = "running", ![n].start_time = clock]
    /\ clock' = clock + 1
    /\ UNCHANGED <<pc, error, failing, calls, written, NUM_NODES, all_image_paths, seq_start,
                   baseline_used, images_per_node, node_tasks, result_queue, processes,
                   launch_i, join_i, dist_start_time, dist_end_time,
                   total_distributed_time, node_times, efficiency, parVars>>

\* The for loop leaving after the first image.
LoopDoneAfterFirst(n) == node[n].idx >= Min(1, Len(node[n].image_list))

\* node_worker: the for loop over image_list has run to its end.
LoopDone(n) == node[n].idx = Len(node[n].image_list)

\* The tuple node_worker sends: (node_id, len(image_list), time_taken).
NodeResult(n) == <<n, Len(node[n].image_list), clock - node[n].start_time>>

\* node_worker: one iteration of "for input_path in image_list".
NodeProcess(n) ==
    /\ node[n].pc = "running"
    /\ ~LoopDone(n)
    /\ LET u == node[n].image_list[node[n].idx + 1]
       IN  /\ calls' = [calls EXCEPT ![u] = @ + 1]
           /\ written' = Save(written, OutputPath(node[n].output_dir, u), u)
           /\ node' = [node EXCEPT ![n].idx = @ + 1,
                                   ![n].returned = Append(@, ProcessImageDist(u))]
    /\ UNCHANGED <<pc, error, clock, failing, NUM_NODES, all_image_paths, seq_start,
                   baseline_used, images_per_node, node_tasks, result_queue, processes,
                   launch_i, join_i, dist_start_time, dist_end_time,
                   total_distributed_time, node_times, efficiency, parVars>>

\* node_worker: the end of the timer and result_queue.put(...): the tuple goes
\* to the queue's buffer in the node process.
NodeFinish(n) ==
    /\ node[n].pc = "running"
    /\ LoopDone(n)
    /\ result_queue' = [result_queue EXCEPT !.buf[n] = Append(@, NodeResult(n))]
    /\ clock' = clock + 1
    /\ node' = [node EXCEPT ![n].pc = "put"]
    /\ UNCHANGED <<pc, error, failing, calls, written, NUM_NODES, all_image_paths, seq_start,
                   baseline_used, images_per_node, node_tasks, processes, launch_i,
                   join_i, dist_start_time, dist_end_time, total_distributed_time,
                   node_times, efficiency, parVars>>

\* The queue's pipe: its buffer (64 KiB) and the room one pickled result
\* tuple takes in it, in bytes.
PipeBytes == 65536
MessageBytes == 64

\* A pipe with room for a single message.
PipeHoldsOneMessage(q) == Len(q.pipe) < 1

\* A write to the pipe goes through while the unread messages leave room.
PipeHasRoom(q) == (Len(q.pipe) + 1) * MessageBytes <= PipeBytes

\* multiprocessing.Queue: the node's feeder thread writes the buffered tuple
\* to the pipe; the write blocks while the pipe is full.
FeederFlush(n) ==
    /\ result_queue.buf[n] # <<>>
    /\ PipeHasRoom(result_queue)
    /\ result_queue' = [result_queue EXCEPT !.buf[n] = Tail(@),
                                            !.pipe = Append(@, Head(result_queue.buf[n]))]
    /\ UNCHANGED <<pc, error, clock, failing, calls, written, NUM_NODES, all_image_paths,
                   seq_start, baseline_used, images_per_node, node_tasks, processes,
                   launch_i, join_i, node, dist_start_time, dist_end_time,
                   total_distributed_time, node_times, efficiency, parVars>>

\* A process exit that does not wait for the feeder thread.
ExitWithoutFlush(n) == TRUE

\* At exit the process joins the queue's feeder thread, which ends once the
\* buffer has been written to the pipe.
FeederJoined(n) == result_queue.buf[n] = <<>>

\* The node process exits once its feeder thread has flushed the buffer.
NodeExit(n) ==
    /\ node[n].pc = "put"
    /\ FeederJoined(n)
    /\ node' = [node EXCEPT ![n].pc = "exited"]
    /\ UNCHANGED <<pc, error, clock, failing, calls, written, NUM_NODES, all_image_paths,
                   seq_start, baseline_used, images_per_node, node_tasks, result_queue,
                   processes, launch_i, join_i, dist_start_time, dist_end_time,
                   total_distributed_time, node_times, efficiency, parVars>>

\* join returning as soon as the node has put its result.
JoinReturnsOnPut(p) == node[p].pc \in {"put", "exited"}

\* p.join() returns when process p has exited.
JoinReturns(p) == node[p].pc = "exited"

\* main(), step 5: p.join() returns for the next process of the list.
Join ==
    /\ pc = "join"
    /\ join_i < Len(processes)
    /\ JoinReturns(processes[join_i + 1])
    /\ join_i' = join_i + 1
    /\ UNCHANGED <<pc, error, clock, failing, calls, written, NUM_NODES, all_image_paths,
                   seq_start, baseline_used, images_per_node, node_tasks, result_queue,
                   processes, launch_i, node, dist_start_time, dist_end_time,
                   total_distributed_time, node_times, efficiency, parVars>>

\* main(): the end of the timer, after the last join.
JoinDone ==
    /\ pc = "join"
    /\ join_i = Len(processes)
    /\ dist_end_time' = clock
    /\ clock' = clock + 1
    /\ total_distributed_time' = dist_end_time' - dist_start_time
    /\ pc' = "drain"
    /\ UNCHANGED <<error, failing, calls, written, NUM_NODES, all_image_paths, seq_start,
                   baseline_used, images_per_node, node_tasks, result_queue, processes,
                   launch_i, join_i, node, dist_start_time, node_times, efficiency,
                   parVars>>

\* main(), step 6: "while not result_queue.empty(): node_times.append(get())".
DrainGet ==
    /\ pc = "drain"
    /\ result_queue.pipe # <<>>
    /\ node_times' = Append(node_times, Head(result_queue.pipe))
    /\ result_queue' = [result_queue EXCEPT !.pipe = Tail(@)]
    /\ UNCHANGED <<pc, error, clock, failing, calls, written, NUM_NODES, all_image_paths,
                   seq_start, baseline_used, images_per_node, node_tasks, processes,
                   launch_i, join_i, node, dist_start_time, dist_end_time,
                   total_distributed_time, efficiency, parVars>>

\* main(): the queue reports empty, the loop ends, node_times.sort().
DrainEnd ==
    /\ pc = "drain"
    /\ result_queue.pipe = <<>>
    /\ node_times' = ListSort(node_times)
    /\ pc' = "summary"
    /\ UNCHANGED <<error, clock, failing, calls, written, NUM_NODES, all_image_paths, seq_start,
                   baseline_used, images_per_node, node_tasks, result_queue, processes,
                   launch_i, join_i, node, dist_start_time, dist_end_time,
                   total_distributed_time, efficiency, parVars>>

\* main(), step 7: the summary and the efficiency.
Summary ==
    /\ pc = "summary"
    /\ efficiency' = Div(baseline_used, total_distributed_time)
    /\ pc' = "done"
    /\ UNCHANGED <<error, clock, failing, calls, written, NUM_NODES, all_image_paths, seq_start,
                   baseline_used, images_per_node, node_tasks, result_queue, processes,
                   launch_i, join_i, node, dist_start_time, dist_end_time,
                   total_distributed_time, node_times, parVars>>

\* Time passes while the distributed run is timed.
DistTick ==
    /\ pc \in {"launch", "join"}
    /\ clock - dist_start_time <= MaxTicks
    /\ clock' = clock + 1
    /\ UNCHANGED <<pc, error, failing, calls, written, distVars, parVars>>

DistNext ==
    \/ Baseline
    \/ Partition
    \/ Launch
    \/ LaunchDone
    \/ \E n \in NodeIds : NodeBegin(n)
    \/ \E n \in NodeIds : NodeProcess(n)
    \/ \E n \in NodeIds : NodeFinish(n)
    \/ \E n \in NodeIds : FeederFlush(n)
    \/ \E n \in NodeIds : NodeExit(n)
    \/ Join
    \/ JoinDone
    \/ DrainGet
    \/ DrainEnd
    \/ Summary
    \/ DistTick

SpecDist == DistInit /\ [][DistNext]_vars

\* The steps of main() and of node process n.
MainStep ==
    \/ Baseline
    \/ Partition
    \/ Launch
    \/ LaunchDone
    \/ Join
    \/ JoinDone
    \/ DrainGet
    \/ DrainEnd
    \/ Summary

NodeStep(n) == NodeBegin(n) \/ NodeProcess(n) \/ NodeFinish(n) \/ NodeExit(n)

\* Fair scheduling: main, every node process and every feeder thread is an
\* OS process or thread of its own and keeps running while it can take a step
\* (every transform call returns).
SpecDistFair ==
    /\ SpecDist
    /\ WF_vars(MainStep)
    /\ \A n \in NodeIds : WF_vars(NodeStep(n)) /\ WF_vars(FeederFlush(n))

\* ------------------------------------------------ parallel_process.py
OUTPUT_DIR == "output_parallel"

\* The worker_counts lists the suite is run with (the source's is [2, 4, 8]).
WorkerCountChoices ==
    { <<>>, <<1>>, <<2>>, <<3>>, <<1, 2>>, <<2, 1>>, <<2, 2>>, <<3, 2>>,
      <<0>>, <<2, 0>>, <<-1, 2>> }

\* process_image reporting success although the transform raised.
ProcessImageHidesFailure(u) == TRUE

\* process_image: True on success, False when the transform raised.
ProcessImage(u) == u \notin failing

\* Pool.map's chunksize for n items on a pool of w workers.
ChunkSize(n, w) ==
    IF n = 0 THEN 0
    ELSE IF n % (w * 4) # 0 THEN (n \div (w * 4)) + 1 ELSE n \div (w * 4)

\* _get_tasks losing the last, shorter chunk.
GetTasksDropsRemainder(items, size) ==
    IF size = 0 THEN <<>>
    ELSE [i \in 1..(Len(items) \div size) |-> SubSeq(items, (i - 1) * size + 1, i * size)]

\* Pool._get_tasks: successive chunks of `size` items.
RECURSIVE GetTasks(_, _)
GetTasks(items, size) ==
    IF items = <<>> THEN <<>>
    ELSE <<SubSeq(items, 1, Min(size, Len(items)))>>
         \o GetTasks(SubSeq(items, Min(size, Len(items)) + 1, Len(items)), size)

\* pool.map(process_image, tasks) on a new Pool(processes=w): the chunks are
\* queued in order and every worker is idle.
NewPool(w, items) ==
    LET chunks == GetTasks(items, ChunkSize(Len(items), w))
    IN  [taskq |-> [i \in 1..Len(chunks) |-> [id |-> i, items |-> chunks[i]]],
         job   |-> [k \in 1..w |-> <<>>],
         pos   |-> [k \in 1..w |-> 0],
         acc   |-> [k \in 1..w |-> <<>>],
         done  |-> [i \in 1..Len(chunks) |-> <<>>]]

\* map returning as soon as every chunk has been handed to a worker.
MapReadyOnDispatch(p) == p.taskq = <<>>

\* pool.map is ready when every chunk's result list has come back.
\* A chunk is never empty, so an empty entry of done means "not back yet".
MapReady(p) == p.taskq = <<>> /\ \A i \in 1..Len(p.done) : p.done[i] # <<>>

\* The quotient the wrong way round.
SpeedupInverted(baseline, total) == Div(total, baseline)

\* speedup = baseline_time / total_time
Speedup(baseline, total) == Div(baseline, total)

ParInit ==
    /\ pc = "seq_start"
    /\ error = "none"
    /\ clock = 0
    /\ \E n \in 0..MaxTasks :
          /\ tasks = Iota(n)
          /\ failing \in SUBSET (1..n)
          /\ calls = [u \in 1..n |-> 0]
    /\ written = <<>>
    /\ worker_counts \in WorkerCountChoices
    /\ start_seq = 0
    /\ end_seq = 0
    /\ baseline_time = 0
    /\ results_seq = <<>>
    /\ results_table = <<>>
    /\ run_i = 0
    /\ count = 0
    /\ start_time = 0
    /\ pool = IdlePool
    /\ results = <<>>
    /\ NUM_NODES = 0
    /\ all_image_paths = <<>>
    /\ seq_start = 0
    /\ baseline_used = 0
    /\ images_per_node = 0
    /\ node_tasks = <<>>
    /\ result_queue = [buf |-> [n \in NodeIds |-> <<>>], pipe |-> <<>>]
    /\ processes = <<>>
    /\ launch_i = 0
    /\ join_i = 0
    /\ node = [n \in NodeIds |-> IdleNode]
    /\ dist_start_time = 0
    /\ dist_end_time = 0
    /\ total_distributed_time = 0
    /\ node_times = <<>>
    /\ efficiency = 0

\* main(), step 2: the timer of the 1-worker baseline starts.
SeqStart ==
    /\ pc = "seq_start"
    /\ start_seq' = clock
    /\ clock' = clock + 1
    /\ pc' = "seq_loop"
    /\ UNCHANGED <<error, failing, calls, written, distVars, tasks, worker_counts, end_seq,
                   baseline_time, results_seq, results_table, run_i, count,
                   start_time, pool, results>>

\* One element of "[process_image(task) for task in tasks]".
SeqProcess ==
    /\ pc = "seq_loop"
    /\ Len(results_seq) < Len(tasks)
    /\ LET u == tasks[Len(results_seq) + 1]
       IN  /\ results_seq' = Append(results_seq, ProcessImage(u))
           /\ calls' = [calls EXCEPT ![u] = @ + 1]
           /\ written' = Save(written, OutputPath(OUTPUT_DIR, u), u)
    /\ UNCHANGED <<pc, error, clock, failing, distVars, tasks, worker_counts,
                   start_seq, end_seq, baseline_time, results_table, run_i, count,
                   start_time, pool, results>>

\* The baseline timer stops; the table gets its first row (1, baseline, 1.0).
SeqEnd ==
    /\ pc = "seq_loop"
    /\ Len(results_seq) = Len(tasks)
    /\ end_seq' = clock
    /\ clock' = clock + 1
    /\ baseline_time' = end_seq' - start_seq
    /\ results_table' = << <<1, baseline_time', Scale>> >>
    /\ pc' = "loop"
    /\ UNCHANGED <<error, failing, calls, written, distVars, tasks, worker_counts, start_seq,
                   results_seq, run_i, count, start_time, pool, results>>

\* main(), step 3: the next "for count in worker_counts" iteration: the timer
\* starts, the Pool is created and pool.map is called.  Pool(processes=count)
\* raises ValueError for count < 1.
PoolStart ==
    /\ pc = "loop"
    /\ run_i < Len(worker_counts)
    /\ count' = worker_counts[run_i + 1]
    /\ start_time' = clock
    /\ clock' = clock + 1
    /\ IF count' < 1
       THEN /\ pc' = "error"
            /\ error' = "ValueError"
            /\ UNCHANGED <<pool, calls, written, results>>
       ELSE /\ pool' = NewPool(count', tasks)
            /\ calls' = [u \in DOMAIN calls |-> 0]
            /\ written' = <<>>
            /\ results' = <<>>
            /\ pc' = "pool_map"
            /\ error' = error
    /\ UNCHANGED <<failing, distVars, tasks, worker_counts, start_seq, end_seq,
                   baseline_time, results_seq, results_table, run_i>>

\* An idle pool worker takes the next chunk from the task queue.
WorkerGet(w) ==
    /\ pc = "pool_map"
    /\ w \in DOMAIN pool.job
    /\ pool.job[w] = <<>>
    /\ pool.taskq # <<>>
    /\ pool' = [pool EXCEPT !.taskq = Tail(@),
                            !.job[w] = <<Head(pool.taskq)>>,
                            !.pos[w] = 0,
                            !.acc[w] = <<>>]
    /\ UNCHANGED <<pc, error, clock, failing, calls, written, distVars, tasks, worker_counts,
                   start_seq, end_seq, baseline_time, results_seq, results_table,
                   run_i, count, start_time, results>>

\* A pool worker applies process_image to the next item of its chunk; after
\* the chunk's last item it sends the chunk's result list back.
WorkerRun(w) ==
    /\ pc = "pool_map"
    /\ w \in DOMAIN pool.job
    /\ pool.job[w] # <<>>
    /\ LET chunk == pool.job[w][1]
           u     == chunk.items[pool.pos[w] + 1]
           acc   == Append(pool.acc[w], ProcessImage(u))
       IN  /\ calls' = [calls EXCEPT ![u] = @ + 1]
           /\ written' = Save(written, OutputPath(OUTPUT_DIR, u), u)
           /\ IF pool.pos[w] + 1 = Len(chunk.items)
              THEN pool' = [pool EXCEPT !.job[w] = <<>>, !.pos[w] = 0, !.acc[w] = <<>>,
                                        !.done[chunk.id] = acc]
              ELSE pool' = [pool EXCEPT !.pos[w] = @ + 1, !.acc[w] = acc]
    /\ UNCHANGED <<pc, error, clock, failing, distVars, tasks, worker_counts,
                   start_seq, end_seq, baseline_time, results_seq, results_table,
                   run_i, count, start_time, results>>

\* pool.map returns the results in task order and the with-block ends the pool.
PoolMapReturn ==
    /\ pc = "pool_map"
    /\ MapReady(pool)
    /\ results' = Concat(pool.done)
    /\ pool' = IdlePool
    /\ pc' = "pool_end"
    /\ UNCHANGED <<error, clock, failing, calls, written, distVars, tasks, worker_counts,
                   start_seq, end_seq, baseline_time, results_seq, results_table,
                   run_i, count, start_time>>

\* The run's timer stops; speedup is computed and the row is appended.
RecordRun ==
    /\ pc = "pool_end"
    /\ clock' = clock + 1
    /\ results_table' = Append(results_table,
                               <<count, clock - start_time,
                                 Speedup(baseline_time, clock - start_time)>>)
    /\ run_i' = run_i + 1
    /\ pc' = "loop"
    /\ UNCHANGED <<error, failing, calls, written, distVars, tasks, worker_counts, start_seq,
                   end_seq, baseline_time, results_seq, count, start_time, pool,
                   results>>

\* The loop over worker_counts left one iteration early.
LoopOverOneEarly == run_i >= Len(worker_counts) - 1

\* "for count in worker_counts" has no entry left.
LoopOver == run_i = Len(worker_counts)

\* main(), step 4: the speedup table is printed.
ShowTable ==
    /\ pc = "loop"
    /\ LoopOver
    /\ pc' = "done"
    /\ UNCHANGED <<error, clock, failing, calls, written, distVars, parVars>>

\* Time passes while a run is timed.
ParTick ==
    /\ \/ pc = "seq_loop" /\ clock - start_seq <= MaxTicks
       \/ pc = "pool_map" /\ clock - start_time <= MaxTicks
    /\ clock' = clock + 1
    /\ UNCHANGED <<pc, error, failing, calls, written, distVars, parVars>>

ParNext ==
    \/ SeqStart
    \/ SeqProcess
    \/ SeqEnd
    \/ PoolStart
    \/ \E w \in DOMAIN pool.job : WorkerGet(w)
    \/ \E w \in DOMAIN pool.job : WorkerRun(w)
    \/ PoolMapReturn
    \/ RecordRun
    \/ ShowTable
    \/ ParTick

SpecPar == ParInit /\ [][ParNext]_vars

\* ------------------------------------------------------ both scripts
\* Either script is run: the two have no step in common.
Init == DistInit \/ ParInit

Next == DistNext \/ ParNext

Spec == Init /\ [][Next]_vars

\* ===================================================== the claims
\* ------------------------------------------------ distributed_sim.py
\* The launch loop is over: it ran to its end or an exception ended it.
LaunchEnded == pc \in {"join", "drain", "summary", "done"} \/ error = "IndexError"

\* The partitions handed to the launched nodes, in ascending node id.
Handed == [i \in 1..Len(processes) |-> node[processes[i]].image_list]

AscendingIds == \A i \in 1..(Len(processes) - 1) : processes[i] < processes[i + 1]

\* C1: for every degree k >= 1, once the nodes have been launched the
\* partitions handed to them are a disjoint, order-preserving cover of the
\* batch: the sizes sum to N, every unit is in exactly one partition, and
\* the partitions concatenated in ascending node id are the batch.
C1_PartitionsCoverBatch ==
    (NUM_NODES >= 1 /\ LaunchEnded) =>
        /\ AscendingIds
        /\ SumLen(Handed) = Len(all_image_paths)
        /\ \A u \in Range(all_image_paths) :
              Cardinality({ij \in {<<i, j>> : i \in 1..Len(Handed), j \in 1..Len(all_image_paths)} :
                              /\ ij[2] <= Len(Handed[ij[1]])
                              /\ Handed[ij[1]][ij[2]] = u}) = 1
        /\ Concat(Handed) = all_image_paths

\* C1 witness: five units split over two nodes, both launched, run finished.
C1_Witness ==
    /\ pc = "done"
    /\ NUM_NODES = 2
    /\ Len(all_image_paths) = 5
    /\ Len(processes) = 2
    /\ Handed[1] # <<>>
    /\ Handed[2] # <<>>

\* The slice the split formula gives partition i (0-indexed), c = ceil(N/k).
FormulaSlice(i) ==
    LET n == Len(all_image_paths)
        c == CeilDiv(n, NUM_NODES)
    IN  PySlice(all_image_paths, Min(n, i * c), Min(n, (i + 1) * c))

\* C2: for every degree k >= 1 the launch hands out k partitions and
\* partition i (0-indexed) is exactly the elements [i*c, min(N, (i+1)*c)) with
\* c = ceil(N/k); so with N < k the first N are non-empty and the last k-N
\* are empty.
C2_SplitFollowsFormula ==
    (NUM_NODES >= 1 /\ LaunchEnded) =>
        /\ Len(processes) = NUM_NODES
        /\ \A i \in 1..Len(processes) : Handed[i] = FormulaSlice(i - 1)

\* The outcomes the run has on record: the values process_image returned.
RecordedAs(v) ==
    {u \in Range(all_image_paths) :
        \E n \in NodeIds : \E j \in 1..Len(node[n].returned) :
            node[n].image_list[j] = u /\ node[n].returned[j] = v}

\* C6: at the end of the run the recorded successful outcomes plus the
\* recorded failed outcomes are as many as the batch, and every failing unit
\* is among the recorded failures.  Stated for the source's own degree, 2.
C6_TallyAccountsForEveryUnit ==
    (pc = "done" /\ NUM_NODES = 2) =>
        /\ Cardinality(RecordedAs("True")) + Cardinality(RecordedAs("False"))
              = Len(all_image_paths)
        /\ RecordedAs("False") = failing

\* C7: the baseline of the efficiency quotient is an elapsed time measured
\* in this run.  A time measured in this run is the difference of two clock
\* readings of this run, so it cannot exceed the time since the first reading.
\* Stated for the source's own degree, 2.
C7_BaselineMeasuredInRun ==
    (pc = "done" /\ NUM_NODES = 2) =>
        /\ efficiency = Div(baseline_used, total_distributed_time)
        /\ baseline_used <= clock - seq_start

\* C10: a degree k <= 0 is rejected with a ConfigurationError before any
\* node worker is launched: main never gets past the split.
C10_NonPositiveDegreeRejected ==
    NUM_NODES <= 0 =>
        /\ pc \in {"baseline", "partition", "error"}
        /\ pc = "error" => error = "ConfigurationError"
        /\ processes = <<>>

\* ------------------------------------------------ parallel_process.py
AllCalledOnce == \A u \in DOMAIN calls : calls[u] = 1

\* C3: a Pool run is over (pool.map has returned, the timer is stopped, the
\* row is in the table) only when every unit of the batch has its outcome.
C3_MapReturnsAfterAllOutcomes ==
    /\ pc = "pool_end" => Len(results) = Len(tasks) /\ AllCalledOnce
    /\ pc = "pool_map" => Len(results_table) = run_i + 1
    /\ (pc \in {"loop", "done"} /\ Len(results_table) > 1) =>
          Len(results) = Len(tasks) /\ AllCalledOnce

\* C3 witness: a two-worker run over at least three units has returned.
C3_Witness ==
    /\ pc = "pool_end"
    /\ count = 2
    /\ Len(tasks) >= 3
    /\ Len(results) = Len(tasks)

\* C4: within a run (the baseline or a Pool run) no unit is passed to the
\* transform twice, and when the run is over every unit has been passed to it
\* exactly once.  (A unit handled by two workers is a unit called twice.)
C4_EveryUnitExactlyOnce ==
    /\ \A u \in DOMAIN calls : calls[u] <= 1
    /\ pc \in {"loop", "pool_end", "done"} => AllCalledOnce

\* C4 witness: a one-worker Pool run whose chunks hold more than one unit,
\* the last chunk a shorter one, has processed the whole batch.
C4_Witness ==
    /\ pc = "pool_end"
    /\ count = 1
    /\ Len(tasks) = 5
    /\ AllCalledOnce

\* What a run records for a batch: False exactly for the failing units.
ExpectedOutcomes == [i \in 1..Len(tasks) |-> tasks[i] \notin failing]

\* C5: whatever units fail, no run is aborted by it (the only exception
\* that ends main is the Pool's ValueError for a worker count below 1), every
\* unit is processed once (no retry), the recorded outcome is False for
\* exactly the failing units, and the table has a row per run.
C5_FailuresRecordedRunContinues ==
    /\ pc = "error" => error = "ValueError" /\ count < 1
    /\ pc \in {"loop", "pool_map", "pool_end", "done", "error"} =>
          results_seq = ExpectedOutcomes
    /\ pc = "pool_end" => results = ExpectedOutcomes /\ AllCalledOnce
    /\ pc = "done" => Len(results_table) = 1 + Len(worker_counts)

\* C5 witness: every unit of a batch failed and the suite still finished with
\* the baseline row and a row per Pool run.
C5_Witness ==
    /\ pc = "done"
    /\ tasks # <<>>
    /\ failing = Range(tasks)
    /\ Len(worker_counts) = 2
    /\ Len(results_table) = 3
    /\ results = [i \in 1..Len(tasks) |-> FALSE]

\* C8: the row of worker count w holds speedup = baseline / elapsed(w),
\* the baseline being the time measured around the 1-worker run over the
\* whole batch; baseline 2.0 with elapsed 1.1 gives 1.818, with 0.6 3.333.
C8_SpeedupIsBaselineOverElapsed ==
    /\ \A k \in 2..Len(results_table) :
          /\ results_table[k][1] = worker_counts[k - 1]
          /\ results_table[k][3] = (baseline_time * Scale) \div results_table[k][2]
    /\ pc \notin {"seq_start", "seq_loop"} =>
          /\ baseline_time = end_seq - start_seq
          /\ Len(results_seq) = Len(tasks)
          /\ results_table[1] = <<1, baseline_time, Scale>>
    /\ Speedup(20, 11) = 1818
    /\ Speedup(20, 6) = 3333

\* C8 witness: a finished suite of two Pool runs whose speedups differ.
C8_Witness ==
    /\ pc = "done"
    /\ Len(results_table) = 3
    /\ results_table[2][3] # results_table[3][3]
    /\ results_table[2][3] # Scale

\* C9: on an empty batch, for any list of positive worker counts, the
\* suite finishes without an error and every row has elapsed 0 and speedup 1.0.
C9_EmptyBatchRowsAreTrivial ==
    (tasks = <<>> /\ \A i \in 1..Len(worker_counts) : worker_counts[i] >= 1) =>
        /\ error = "none"
        /\ pc = "done" => \A k \in 1..Len(results_table) :
              results_table[k][2] = 0 /\ results_table[k][3] = Scale

\* C11: with a non-positive entry in worker_counts the suite fails with a
\* ConfigurationError at once: no unit has been processed by any run, and
\* the run never gets past its first step.
C11_BadWorkerCountRejectedAtOnce ==
    (\E i \in 1..Len(worker_counts) : worker_counts[i] <= 0) =>
        /\ results_seq = <<>>
        /\ \A u \in DOMAIN calls : calls[u] = 0
        /\ pc \in {"seq_start", "error"}
        /\ pc = "error" => error = "ConfigurationError"

\* The NodeResult messages of node n, wherever they are: in the node's
\* buffer, in the pipe, or collected by main.
SentBy(n) ==
    LET from(s) == {i \in 1..Len(s) : s[i][1] = n}
    IN  Cardinality(from(result_queue.buf[n])) + Cardinality(from(result_queue.pipe))
           + Cardinality(from(node_times))

MessagesOf(n) ==
    {m \in Range(result_queue.buf[n]) \cup Range(result_queue.pipe) \cup Range(node_times) :
        m[1] = n}

\* C12: a node sends at most one NodeResult in its lifetime, exactly one once
\* it is past its put; when the message exists the node has processed every
\* unit of its partition, and the message's unit_count is the size of the
\* partition the node was given.
C12_OneResultAfterWholePartition ==
    \A n \in NodeIds :
        /\ SentBy(n) <= 1
        /\ node[n].pc \in {"put", "exited"} <=> SentBy(n) = 1
        /\ SentBy(n) = 1 =>
              /\ node[n].idx = Len(node[n].image_list)
              /\ \A j \in 1..Len(node[n].image_list) : calls[node[n].image_list[j]] = 1
              /\ n <= Len(node_tasks)
              /\ \A m \in MessagesOf(n) : m[2] = Len(node_tasks[n])

\* C12 witness: both nodes of a five-unit run have exited, each having sent
\* its one message.
C12_Witness ==
    /\ NUM_NODES = 2
    /\ Len(all_image_paths) = 5
    /\ node[1].pc = "exited"
    /\ node[2].pc = "exited"
    /\ SentBy(1) = 1
    /\ SentBy(2) = 1

\* A node worker is running: its process was started and has not exited.
Running(n) == node[n].pc \notin {"none", "exited"}

\* C13: main reads the result queue only after the join barrier: while main
\* is in or past the drain loop, or holds any collected NodeResult, no node
\* worker is running.
C13_DrainOnlyAfterBarrier ==
    (pc \in {"drain", "summary", "done"} \/ node_times # <<>>) =>
        /\ join_i = Len(processes)
        /\ \A n \in NodeIds : ~Running(n)

\* C13 witness: main has taken the first of two results out of the queue.
C13_Witness ==
    /\ pc = "drain"
    /\ Len(processes) = 2
    /\ Len(node_times) = 1
    /\ result_queue.pipe # <<>>

\* C14: in the report the NodeResults are in ascending node id, in whatever
\* order the nodes finished and their results reached the queue.
C14_ReportInNodeIdOrder ==
    pc \in {"summary", "done"} =>
        \A i \in 1..Len(node_times) : \A j \in 1..Len(node_times) :
            i < j => node_times[i][1] < node_times[j][1]

\* C14 witness: a finished two-node run in which node 2 stopped its timer
\* before node 1 did.
C14_Witness ==
    /\ pc = "done"
    /\ Len(node_times) = 2
    /\ node_times[1][1] = 1
    /\ node_times[2][1] = 2
    /\ node[2].start_time + node_times[2][3] < node[1].start_time + node_times[1][3]

\* C15: whatever the order of worker_counts (all entries positive), the rows
\* of the finished table are sorted by worker count, ascending.
C15_TableSortedByWorkerCount ==
    (pc = "done" /\ \A i \in 1..Len(worker_counts) : worker_counts[i] >= 1) =>
        \A i \in 1..Len(results_table) : \A j \in 1..Len(results_table) :
            i < j => results_table[i][1] <= results_table[j][1]

\* C16: the steps of the suite are strictly sequenced.  A Pool run starts
\* only from the loop head, with the baseline complete and its row recorded,
\* every earlier run recorded and no pool alive; pool.map is left only when no
\* chunk is queued and no worker holds one; the table is shown only after the
\* last run has been recorded.
C16_StepsStrictlySequenced ==
    [][ /\ (pc # "pool_map" /\ pc' = "pool_map") =>
              /\ pc = "loop"
              /\ Len(results_seq) = Len(tasks)
              /\ Len(results_table) = run_i + 1
              /\ pool = IdlePool
        /\ (pc = "pool_map" /\ pc' # "pool_map") =>
              /\ pc' = "pool_end"
              /\ pool.taskq = <<>>
              /\ \A w \in DOMAIN pool.job : pool.job[w] = <<>>
              /\ \A i \in 1..Len(pool.done) : pool.done[i] # <<>>
        /\ (pc # "done" /\ pc' = "done") =>
              /\ run_i = Len(worker_counts)
              /\ Len(results_table) = 1 + Len(worker_counts)
              /\ pool = IdlePool
      ]_vars

\* C16 witness: a suite of two Pool runs, with two workers and then one, has
\* shown its table.
C16_Witness ==
    /\ pc = "done"
    /\ worker_counts = <<2, 1>>
    /\ Len(tasks) >= 2
    /\ run_i = 2
    /\ count = 1

\* How many of the collected NodeResults carry node id n.
Collected(n) == Cardinality({i \in 1..Len(node_times) : node_times[i][1] = n})

\* C17: when the drain loop has ended, the report holds exactly one
\* NodeResult for each node id 1..NUM_NODES and nothing else, and no sent
\* result is left in a node's buffer or in the pipe.
C17_ReportHasEachNodeOnce ==
    pc \in {"summary", "done"} =>
        /\ \A n \in 1..NUM_NODES : Collected(n) = 1
        /\ Len(node_times) = Max(NUM_NODES, 0)
        /\ result_queue.pipe = <<>>
        /\ \A n \in NodeIds : result_queue.buf[n] = <<>>

\* C17 witness: a two-node run over a non-empty batch has drained both
\* results and built its report.
C17_Witness ==
    /\ pc = "summary"
    /\ NUM_NODES = 2
    /\ all_image_paths # <<>>
    /\ Collected(1) = 1
    /\ Collected(2) = 1

\* C18: within a run no output path is saved to twice, so no two workers
\* write the same output_ref: in a Pool run (and the baseline) every task has
\* its own path under OUTPUT_DIR, and in the distributed run the nodes write
\* under directories that differ from node to node.
C18_OutputPathsDistinct ==
    /\ \A p \in DOMAIN written : written[p] = 1
    /\ Cardinality(DOMAIN written)
          = Cardinality({u \in DOMAIN calls : calls[u] >= 1 /\ u \notin failing})
    /\ \A n \in NodeIds : \A m \in NodeIds :
          (n # m /\ node[n].pc # "none" /\ node[m].pc # "none") =>
              node[n].output_dir # node[m].output_dir

\* C18 witness: two pool workers are each in the middle of a chunk while two
\* images with the same file name, from different class folders, have
\* already been saved in this run.
C18_Witness ==
    /\ pc = "pool_map"
    /\ \E v \in DOMAIN pool.job : \E w \in DOMAIN pool.job :
          v # w /\ pool.job[v] # <<>> /\ pool.job[w] # <<>>
    /\ \E p \in DOMAIN written : \E q \in DOMAIN written : p # q /\ p[3] = q[3]

\* C19: under fair scheduling the distributed run terminates.  main ends
\* (with the summary, or with the exception that killed it); every node that
\* runs eventually exits, its result written to the pipe although main reads
\* the queue only after the joins; and for the degrees main can launch, 1 and
\* 2, the joins return, the drain loop ends and the summary is produced.
C19_DistributedRunTerminates ==
    <>(/\ pc \in {"done", "error"}
       /\ \A n \in NodeIds : node[n].pc \in {"none", "exited"}
       /\ \A n \in NodeIds : result_queue.buf[n] = <<>>
       /\ NUM_NODES \in {1, 2} =>
             /\ pc = "done"
             /\ join_i = NUM_NODES
             /\ Len(node_times) = NUM_NODES)

\* C19 witness: a two-node run over at least two units has produced its
\* summary with both node processes gone.
C19_Witness ==
    /\ pc = "done"
    /\ NUM_NODES = 2
    /\ Len(all_image_paths) >= 2
    /\ node[1].pc = "exited"
    /\ node[2].pc = "exited"
    /\ efficiency > 0

====
